---- MODULE Spec2Model ----
(***************************************************************************)
(* A model of relax.py (fraser-lab/relax): the three closed-form          *)
(* relaxation functions and relaxation_fit, the driver that validates the *)
(* initial guess, calls scipy's curve_fit, warns about parameters whose   *)
(* standard deviation exceeds their value, and recomputes the fitted      *)
(* curve.                                                                 *)
(*                                                                        *)
(* Numbers are a small IEEE-754-like format: the finite values are the    *)
(* integers of magnitude at most MaxFinite, every arithmetic result is    *)
(* rounded to that grid, a result beyond the range overflows to an        *)
(* infinity, and the invalid operations (inf - inf, 0 * inf, sqrt of a    *)
(* negative) give NaN, which compares unequal and unordered to all.       *)
(***************************************************************************)
EXTENDS Integers, Sequences, FiniteSets

\* ------------------------------------------------------------------ bounds

\* Largest finite magnitude of the number format.
MaxFinite == 100

\* Longest observation series x (and y) a call is given.
MaxLen == 2

\* Longest initial_guess a call is given.
MaxGuess == 8

\* ------------------------------------------------------- floating point

Fin(n) == [k |-> "fin", v |-> n]

PosInf == [k |-> "inf", v |-> 1]

NegInf == [k |-> "inf", v |-> -1]

NaN == [k |-> "nan", v |-> 0]

IsNaN(a) == a.k = "nan"

IsFinite(a) == a.k = "fin"

Sign(n) == IF n > 0 THEN 1 ELSE IF n < 0 THEN -1 ELSE 0

\* An exact result brought back into the format: overflow gives an infinity.
Round(n) ==
    IF n > MaxFinite THEN PosInf
    ELSE IF n < -MaxFinite THEN NegInf
    ELSE Fin(n)

\* The element of a set of one element. An operation is written as the set
\* of its results over the values of its operands, so that each operand is
\* evaluated once, as the operand of an arithmetic operation is.
The(S) == CHOOSE r \in S : TRUE

\* -a
FNeg(a) ==
    The({IF IsNaN(u) THEN NaN ELSE [k |-> u.k, v |-> -u.v] : u \in {a}})

\* a + b
FAdd(a, b) ==
    The({IF IsNaN(u) \/ IsNaN(w) THEN NaN
        ELSE IF u.k = "inf" /\ w.k = "inf" THEN (IF u.v = w.v THEN u ELSE NaN)
        ELSE IF u.k = "inf" THEN u
        ELSE IF w.k = "inf" THEN w
        ELSE Round(u.v + w.v) : u \in {a}, w \in {b}})

\* a - b
FSub(a, b) == FAdd(a, FNeg(b))

\* a * b
FMul(a, b) ==
    The({IF IsNaN(u) \/ IsNaN(w) THEN NaN
        ELSE IF u.k = "inf" \/ w.k = "inf"
             THEN (IF Sign(u.v) * Sign(w.v) = 0 THEN NaN
                   ELSE [k |-> "inf", v |-> Sign(u.v) * Sign(w.v)])
        ELSE Round(u.v * w.v) : u \in {a}, w \in {b}})

\* e^0 .. e^9 rounded to the grid; e^t rounds to 0 for every t <= -1 and
\* exceeds any MaxFinite below 22026 for t >= 10.
ExpTable == <<1, 3, 7, 20, 55, 148, 403, 1097, 2981, 8103>>

\* np.exp(a)
FExp(a) ==
    The({IF IsNaN(u) THEN NaN
        ELSE IF u.k = "inf" THEN (IF u.v > 0 THEN PosInf ELSE Fin(0))
        ELSE IF u.v < 0 THEN Fin(0)
        ELSE IF u.v >= Len(ExpTable) THEN PosInf
        ELSE Round(ExpTable[u.v + 1]) : u \in {a}})

\* The square root of a natural number rounded to the nearest integer.
SqrtRound(n) ==
    LET r == CHOOSE r \in 0..n : r * r <= n /\ (r + 1) * (r + 1) > n
    IN  IF n - r * r > r THEN r + 1 ELSE r

\* np.sqrt(a)
FSqrt(a) ==
    The({IF IsNaN(u) THEN NaN
        ELSE IF u.k = "inf" THEN (IF u.v > 0 THEN PosInf ELSE NaN)
        ELSE IF u.v < 0 THEN NaN
        ELSE Fin(SqrtRound(u.v)) : u \in {a}})

\* np.abs(a)
FAbs(a) ==
    The({IF IsNaN(u) THEN NaN
        ELSE IF u.k = "inf" THEN PosInf
        ELSE Fin(IF u.v < 0 THEN -u.v ELSE u.v) : u \in {a}})

\* The place of a number that is not NaN in the order of the extended reals.
Ord(a) == IF a.k = "inf" THEN a.v * (MaxFinite + 1) ELSE a.v

\* a < b
FLess(a, b) == The({~IsNaN(u) /\ ~IsNaN(w) /\ Ord(u) < Ord(w) : u \in {a}, w \in {b}})

\* a <= b
FLessEq(a, b) == The({~IsNaN(u) /\ ~IsNaN(w) /\ Ord(u) <= Ord(w) : u \in {a}, w \in {b}})

\* a == b
FEq(a, b) == The({~IsNaN(u) /\ ~IsNaN(w) /\ Ord(u) = Ord(w) : u \in {a}, w \in {b}})

\* ------------------------------------------------------ model functions

\* a*(1-np.exp(-b*x))
Term(x, a, b) == FMul(a, FSub(Fin(1), FExp(FMul(FNeg(b), x))))

single_step_no_offset(x, a, b, c) == Term(x, a, b)

single_step_relaxation(x, a, b, c) == FAdd(Term(x, a, b), c)

two_step_relaxation(x, a, b, c, d, e) ==
    FAdd(FAdd(Term(x, a, b), Term(x, c, d)), e)

three_step_relaxation(x, a, b, c, d, e, f, g) ==
    FAdd(FAdd(FAdd(Term(x, a, b), Term(x, c, d)), Term(x, e, f)), g)

\* signature(relaxation_function).parameters: the argument names in order.
Signature(fn) ==
    CASE fn = "single_step_relaxation" -> <<"x", "a", "b", "c">>
      [] fn = "two_step_relaxation" -> <<"x", "a", "b", "c", "d", "e">>
      [] fn = "three_step_relaxation" ->
            <<"x", "a", "b", "c", "d", "e", "f", "g">>

\* relaxation_function(i, *parameters)
Apply(fn, i, p) ==
    CASE fn = "single_step_relaxation" ->
            single_step_relaxation(i, p[1], p[2], p[3])
      [] fn = "two_step_relaxation" ->
            two_step_relaxation(i, p[1], p[2], p[3], p[4], p[5])
      [] fn = "three_step_relaxation" ->
            three_step_relaxation(i, p[1], p[2], p[3], p[4], p[5], p[6], p[7])

RelaxationFunctions ==
    {"single_step_relaxation", "two_step_relaxation", "three_step_relaxation"}

\* ---------------------------------------------------------------- state

VARIABLES
    pc,                   \* each call's position in relaxation_fit
    relaxation_function,  \* argument: the model function, by name
    x,                    \* argument: times of observations
    y,                    \* argument: observed signal
    initial_guess,        \* argument: starting parameters
    parameters,           \* local: fitted parameters returned by curve_fit
    covariance,           \* local: covariance matrix returned by curve_fit
    index,                \* local: the loop variable of the diagnostic loop
    y_calc,               \* local: the predicted signal
    result,               \* <<>> or the returned tuple
    raised,               \* "" or the exception that left the call
    warnings,             \* what warn() was called with, in order, process-wide
    solver,               \* each call's curve_fit invocations and their outcomes
    trace,                \* each call's executed statements, in order
    given,                \* each call's arguments as they were passed
    evalArgs,             \* arguments of a direct call of single_step_relaxation
    evalValue             \* <<>> or that call's value

vars ==
    <<pc, relaxation_function, x, y, initial_guess, parameters, covariance,
      index, y_calc, result, raised, warnings, solver, trace, given,
      evalArgs, evalValue>>

Calls == {1, 2}

\* The default of the maxfev argument.
DefaultMaxfev == 5000

\* The default of the initial_guess argument: (1, 1, 1).
Ones(n) == [i \in 1..n |-> Fin(1)]

RECURSIVE SeqsUpTo(_, _)
\* The sequences over S of length at most n.
SeqsUpTo(S, n) ==
    IF n = 0 THEN {<<>>}
    ELSE LET shorter == SeqsUpTo(S, n - 1)
         IN  shorter \cup {Append(s, e) : s \in {t \in shorter : Len(t) = n - 1}, e \in S}

\* Observation times and signals the calls are given.
XValues == {Fin(0), Fin(1), Fin(3)}

YValues == {Fin(2)}

\* ------------------------------------------------------------ curve_fit

\* What curve_fit may report for one parameter: <<fitted value, variance>>.
Estimates ==
    << <<Fin(2), Fin(1)>>,     \* sd 1 below the value
       <<Fin(1), Fin(4)>>,     \* sd 2 above the value
       <<Fin(-2), Fin(4)>>,    \* sd 2 equal to the magnitude of the value
       <<Fin(-1), Fin(9)>>,    \* sd 3 above the magnitude of a negative value
       <<Fin(3), Fin(-1)>>,    \* negative variance: sd is NaN
       <<Fin(5), PosInf>>,     \* variance that could not be estimated
       <<Fin(0), Fin(0)>> >>   \* both zero

\* The estimate of parameter i (from 1) in the fit that starts at estimate k
\* and moves on by stride s from one parameter to the next.
Estimate(k, s, i) == Estimates[((k - 1 + s * (i - 1)) % Len(Estimates)) + 1]

\* The off-diagonal entries <<above, below>> of the covariance matrix.
OffDiagonals == {<<Fin(0), Fin(0)>>, <<Fin(1), Fin(0)>>}

\* The ways curve_fit fails: no convergence within maxfev (RuntimeError),
\* or data it rejects (ValueError).
SolverErrors == {"RuntimeError", "ValueError"}

\* The outcomes of curve_fit(f, x, y, p0=p0, maxfev=maxfev) for n = len(p0):
\* it raises, or returns n fitted parameters and an n by n covariance matrix.
\* curve_fit is outside the repository; any such outcome may follow any call.
CurveFitOutcomes(n) ==
    {[error |-> e, popt |-> <<>>, pcov |-> <<>>] : e \in SolverErrors}
    \cup
    {[error |-> "",
      popt |-> [i \in 1..n |-> Estimate(k, s, i)[1]],
      pcov |-> [i \in 1..n |-> [j \in 1..n |->
                  IF i = j THEN Estimate(k, s, i)[2]
                  ELSE IF i < j THEN o[1] ELSE o[2]]]] :
        k \in 1..Len(Estimates), s \in {0, 1}, o \in OffDiagonals}

\* ----------------------------------------------------------- relaxation_fit

Step(name, i) == [step |-> name, index |-> i]

\* len(initial_guess) == len(signature(relaxation_function).parameters)
AssertHoldsOffByOne(guess, fn) == Len(guess) = Len(Signature(fn))

\* len(initial_guess) == len(signature(relaxation_function).parameters)-1
AssertHolds(guess, fn) == Len(guess) = Len(Signature(fn)) - 1

\* np.abs(value) <= np.abs(standard_dev)
UnreliableOrEqual(value, standard_dev) == FLessEq(FAbs(value), FAbs(standard_dev))

\* np.abs(value) < np.abs(standard_dev)
Unreliable(value, standard_dev) == FLess(FAbs(value), FAbs(standard_dev))

AlphabetShort == <<"a", "b", "c">>

Alphabet ==
    <<"a", "b", "c", "d", "e", "f", "g", "h", "i", "j", "k", "l", "m",
      "n", "o", "p", "q", "r", "s", "t", "u", "v", "w", "x", "y", "z">>

\* "abcdefghijklmnopqrstuvwxyz"[index+1]
ParameterLetterShifted(i) == Alphabet[i + 2]

\* "abcdefghijklmnopqrstuvwxyz"[index]
ParameterLetter(i) == Alphabet[i + 1]

\* warn(), were it to drop a message whose letter was already warned about.
EmitOncePerLetter(log, w) ==
    IF \E n \in 1..Len(log) : log[n].letter = w.letter THEN log
    ELSE Append(log, w)

\* warn(message): the message joins the process's warnings.
Emit(log, w) == Append(log, w)

\* [relaxation_function(i,*parameters) for i in x]
Predict(fn, xs, p) == [n \in 1..Len(xs) |-> Apply(fn, xs[n], p)]

\* line 79: the assertion.
Validate(c) ==
    /\ pc[c] = "assert"
    /\ trace' = [trace EXCEPT ![c] = Append(@, Step("validate", 0))]
    /\ IF AssertHolds(initial_guess[c], relaxation_function[c])
       THEN /\ pc' = [pc EXCEPT ![c] = "curve_fit"]
            /\ UNCHANGED raised
       ELSE /\ pc' = [pc EXCEPT ![c] = "raised"]
            /\ raised' = [raised EXCEPT ![c] = "AssertionError"]
    /\ UNCHANGED <<relaxation_function, x, y, initial_guess, parameters,
                   covariance, index, y_calc, result, warnings, solver,
                   given, evalArgs, evalValue>>

\* One invocation of curve_fit, as the call made it, with its outcome.
Invocation(c, out) ==
    [f |-> relaxation_function[c], xdata |-> x[c], ydata |-> y[c],
     p0 |-> initial_guess[c], maxfev |-> DefaultMaxfev, out |-> out]

\* line 80, were a failure of curve_fit caught and the guess fitted instead.
CurveFitRecovering(c) ==
    /\ pc[c] = "curve_fit"
    /\ \E out \in CurveFitOutcomes(Len(initial_guess[c])) :
        /\ solver' = [solver EXCEPT ![c] = Append(@, Invocation(c, out))]
        /\ trace' = [trace EXCEPT ![c] = Append(@, Step("solve", 0))]
        /\ parameters' = [parameters EXCEPT ![c] =
                            IF out.error = "" THEN out.popt ELSE initial_guess[c]]
        /\ covariance' = [covariance EXCEPT ![c] =
                            IF out.error = "" THEN out.pcov
                            ELSE [i \in 1..Len(initial_guess[c]) |->
                                    [j \in 1..Len(initial_guess[c]) |-> PosInf]]]
        /\ index' = [index EXCEPT ![c] = 0]
        /\ pc' = [pc EXCEPT ![c] = "for"]
    /\ UNCHANGED <<relaxation_function, x, y, initial_guess, y_calc, result,
                   raised, warnings, given, evalArgs, evalValue>>

\* line 80, were curve_fit called again after a failure.
CurveFitRetrying(c) ==
    /\ pc[c] = "curve_fit"
    /\ \E out \in CurveFitOutcomes(Len(initial_guess[c])) :
        /\ solver' = [solver EXCEPT ![c] = Append(@, Invocation(c, out))]
        /\ trace' = [trace EXCEPT ![c] = Append(@, Step("solve", 0))]
        /\ IF out.error = ""
           THEN /\ parameters' = [parameters EXCEPT ![c] = out.popt]
                /\ covariance' = [covariance EXCEPT ![c] = out.pcov]
                /\ index' = [index EXCEPT ![c] = 0]
                /\ pc' = [pc EXCEPT ![c] = "for"]
                /\ UNCHANGED raised
           ELSE /\ pc' = [pc EXCEPT ![c] =
                            IF Len(solver[c]) = 0 THEN "curve_fit" ELSE "raised"]
                /\ raised' = [raised EXCEPT ![c] =
                                IF Len(solver[c]) = 0 THEN "" ELSE out.error]
                /\ UNCHANGED <<parameters, covariance, index>>
    /\ UNCHANGED <<relaxation_function, x, y, initial_guess, y_calc, result,
                   warnings, given, evalArgs, evalValue>>

\* line 80: parameters, covariance = curve_fit(...); an exception of curve_fit
\* is not caught and leaves relaxation_fit.
CurveFit(c) ==
    /\ pc[c] = "curve_fit"
    /\ \E out \in CurveFitOutcomes(Len(initial_guess[c])) :
        /\ solver' = [solver EXCEPT ![c] = Append(@, Invocation(c, out))]
        /\ trace' = [trace EXCEPT ![c] = Append(@, Step("solve", 0))]
        /\ IF out.error = ""
           THEN /\ parameters' = [parameters EXCEPT ![c] = out.popt]
                /\ covariance' = [covariance EXCEPT ![c] = out.pcov]
                /\ index' = [index EXCEPT ![c] = 0]
                /\ pc' = [pc EXCEPT ![c] = "for"]
                /\ UNCHANGED raised
           ELSE /\ pc' = [pc EXCEPT ![c] = "raised"]
                /\ raised' = [raised EXCEPT ![c] = out.error]
                /\ UNCHANGED <<parameters, covariance, index>>
    /\ UNCHANGED <<relaxation_function, x, y, initial_guess, y_calc, result,
                   warnings, given, evalArgs, evalValue>>

\* The warning of lines 84-85 for the parameter at index i of call c.
Warning(c, i, standard_dev, value) ==
    [call |-> c, letter |-> ParameterLetter(i),
     standard_dev |-> standard_dev, value |-> value]

\* lines 81-85, were a parameter below its standard deviation set to zero.
DiagnoseZeroing(c) ==
    /\ pc[c] = "for"
    /\ index[c] < Len(parameters[c])
    /\ LET value == parameters[c][index[c] + 1]
           standard_dev == FSqrt(covariance[c][index[c] + 1][index[c] + 1])
       IN  /\ trace' = [trace EXCEPT ![c] = Append(@, Step("diagnose", index[c]))]
           /\ index' = [index EXCEPT ![c] = @ + 1]
           /\ IF Unreliable(value, standard_dev)
              THEN /\ warnings' = Emit(warnings, Warning(c, index[c], standard_dev, value))
                   /\ parameters' = [parameters EXCEPT ![c][index[c] + 1] = Fin(0)]
              ELSE UNCHANGED <<warnings, parameters>>
    /\ UNCHANGED <<pc, relaxation_function, x, y, initial_guess, covariance,
                   y_calc, result, raised, solver, given, evalArgs, evalValue>>

\* lines 81-85: one pass of the loop over enumerate(parameters). Indexing the
\* alphabet past its end raises IndexError.
Diagnose(c) ==
    /\ pc[c] = "for"
    /\ index[c] < Len(parameters[c])
    /\ LET value == parameters[c][index[c] + 1]
           standard_dev == FSqrt(covariance[c][index[c] + 1][index[c] + 1])
       IN  /\ trace' = [trace EXCEPT ![c] = Append(@, Step("diagnose", index[c]))]
           /\ IF ~Unreliable(value, standard_dev)
              THEN /\ index' = [index EXCEPT ![c] = @ + 1]
                   /\ UNCHANGED <<pc, raised, warnings>>
              ELSE IF index[c] < Len(Alphabet)
              THEN /\ warnings' = Emit(warnings, Warning(c, index[c], standard_dev, value))
                   /\ index' = [index EXCEPT ![c] = @ + 1]
                   /\ UNCHANGED <<pc, raised>>
              ELSE /\ pc' = [pc EXCEPT ![c] = "raised"]
                   /\ raised' = [raised EXCEPT ![c] = "IndexError"]
                   /\ UNCHANGED <<index, warnings>>
    /\ UNCHANGED <<relaxation_function, x, y, initial_guess, parameters,
                   covariance, y_calc, result, solver, given, evalArgs,
                   evalValue>>

\* line 86, were the curve computed from the initial guess.
RecomputeFromGuess(c) ==
    /\ pc[c] = "for"
    /\ index[c] = Len(parameters[c])
    /\ y_calc' = [y_calc EXCEPT ![c] =
                    Predict(relaxation_function[c], x[c], initial_guess[c])]
    /\ trace' = [trace EXCEPT ![c] = Append(@, Step("predict", 0))]
    /\ pc' = [pc EXCEPT ![c] = "return"]
    /\ UNCHANGED <<relaxation_function, x, y, initial_guess, parameters,
                   covariance, index, result, raised, warnings, solver, given,
                   evalArgs, evalValue>>

\* line 86, reached when the loop of line 81 is exhausted.
Recompute(c) ==
    /\ pc[c] = "for"
    /\ index[c] = Len(parameters[c])
    /\ y_calc' = [y_calc EXCEPT ![c] =
                    Predict(relaxation_function[c], x[c], parameters[c])]
    /\ trace' = [trace EXCEPT ![c] = Append(@, Step("predict", 0))]
    /\ pc' = [pc EXCEPT ![c] = "return"]
    /\ UNCHANGED <<relaxation_function, x, y, initial_guess, parameters,
                   covariance, index, result, raised, warnings, solver, given,
                   evalArgs, evalValue>>

\* line 87: return parameters, covariance, y_calc
Return(c) ==
    /\ pc[c] = "return"
    /\ result' = [result EXCEPT ![c] = <<parameters[c], covariance[c], y_calc[c]>>]
    /\ trace' = [trace EXCEPT ![c] = Append(@, Step("return", 0))]
    /\ pc' = [pc EXCEPT ![c] = "returned"]
    /\ UNCHANGED <<relaxation_function, x, y, initial_guess, parameters,
                   covariance, index, y_calc, raised, warnings, solver, given,
                   evalArgs, evalValue>>

\* A direct call of single_step_relaxation(x, a, b, c).
Evaluate ==
    /\ evalArgs # <<>>
    /\ evalValue = <<>>
    /\ evalValue' = <<single_step_relaxation(evalArgs[1], evalArgs[2],
                                             evalArgs[3], evalArgs[4])>>
    /\ UNCHANGED <<pc, relaxation_function, x, y, initial_guess, parameters,
                   covariance, index, y_calc, result, raised, warnings,
                   solver, trace, given, evalArgs>>

\* ------------------------------------------------------- specifications

Arguments(c) ==
    [relaxation_function |-> relaxation_function[c], x |-> x[c], y |-> y[c],
     initial_guess |-> initial_guess[c]]

\* The locals of a call that has not run any statement yet.
Entry ==
    /\ parameters = [c \in Calls |-> <<>>]
    /\ covariance = [c \in Calls |-> <<>>]
    /\ index = [c \in Calls |-> 0]
    /\ y_calc = [c \in Calls |-> <<>>]
    /\ result = [c \in Calls |-> <<>>]
    /\ raised = [c \in Calls |-> ""]
    /\ warnings = <<>>
    /\ solver = [c \in Calls |-> <<>>]
    /\ trace = [c \in Calls |-> <<>>]
    /\ given = [c \in Calls |-> Arguments(c)]

\* One call of relaxation_fit, with any of the three model functions, any
\* series up to MaxLen and any guess up to MaxGuess; call 2 is never made.
Init ==
    /\ pc = [c \in Calls |-> IF c = 1 THEN "assert" ELSE "idle"]
    /\ \E fn \in RelaxationFunctions :
         relaxation_function = [c \in Calls |-> fn]
    /\ \E xs \in SeqsUpTo(XValues, MaxLen) : x = [c \in Calls |-> xs]
    /\ \E ys \in SeqsUpTo(YValues, MaxLen) : y = [c \in Calls |-> ys]
    /\ \E n \in 0..MaxGuess : initial_guess = [c \in Calls |-> Ones(n)]
    /\ Entry
    /\ evalArgs = <<>>
    /\ evalValue = <<>>

Next ==
    \E c \in Calls :
        \/ Validate(c)
        \/ CurveFit(c)
        \/ Diagnose(c)
        \/ Recompute(c)
        \/ Return(c)

Spec == Init /\ [][Next]_vars

\* relaxation_fit is synchronous: a call that can take a step takes it, and
\* curve_fit returns or raises.
FairSpec == Spec /\ WF_vars(Next)

\* Two calls in flight at once on distinct data, their statements interleaved.
InitConcurrent ==
    /\ pc = [c \in Calls |-> "assert"]
    /\ relaxation_function =
         [c \in Calls |-> IF c = 1 THEN "single_step_relaxation"
                          ELSE "two_step_relaxation"]
    /\ x = [c \in Calls |-> IF c = 1 THEN <<Fin(0), Fin(1)>> ELSE <<Fin(3)>>]
    /\ y = [c \in Calls |-> IF c = 1 THEN <<Fin(2), Fin(2)>> ELSE <<Fin(2)>>]
    /\ \E n \in {2, 3} :
         initial_guess = [c \in Calls |-> IF c = 1 THEN Ones(n) ELSE Ones(5)]
    /\ Entry
    /\ evalArgs = <<>>
    /\ evalValue = <<>>

SpecConcurrent == InitConcurrent /\ [][Next]_vars

\* Arguments of the direct calls of single_step_relaxation.
EvalX == {Fin(-2), Fin(0), Fin(1), Fin(3)}

EvalA == {Fin(0), Fin(2)}

EvalB == {Fin(-3), Fin(-2), Fin(0), Fin(1), Fin(4)}

EvalC == {Fin(-4), Fin(0), Fin(7)}

InitEval ==
    /\ pc = [c \in Calls |-> "idle"]
    /\ relaxation_function = [c \in Calls |-> "single_step_relaxation"]
    /\ x = [c \in Calls |-> <<>>]
    /\ y = [c \in Calls |-> <<>>]
    /\ initial_guess = [c \in Calls |-> Ones(3)]
    /\ Entry
    /\ evalArgs \in EvalX \X EvalA \X EvalB \X EvalC
    /\ evalValue = <<>>

NextEval == Evaluate

SpecEval == InitEval /\ [][NextEval]_vars

\* --------------------------------------------------------------- claims

Done(c) == pc[c] \in {"returned", "raised"}

\* The number of parameters the specification gives each model.
ModelArity(fn) ==
    CASE fn = "single_step_relaxation" -> 3
      [] fn = "two_step_relaxation" -> 5
      [] fn = "three_step_relaxation" -> 7

\* The warnings of call c, in the order they were emitted.
WarningsOf(c) == SelectSeq(warnings, LAMBDA w : w.call = c)

\* curve_fit has been called by c and has returned.
Solved(c) == Len(solver[c]) > 0 /\ solver[c][1].out.error = ""

\* What curve_fit returned to c.
Fit(c) == solver[c][1].out

\* Parameter i (from 0) of a fit has a standard error of strictly greater
\* magnitude than its value.
Flagged(fit, i) ==
    FLess(FAbs(fit.popt[i + 1]), FAbs(FSqrt(fit.pcov[i + 1][i + 1])))

\* C1: a call whose initial_guess length differs from the model's arity (3,
\* 5, 7) fails with the assertion's error and never invokes curve_fit; a call
\* whose length equals the arity passes the check and goes on to curve_fit.
C1_ArityChecked ==
    \A c \in Calls :
        /\ trace[c] = <<>> => solver[c] = <<>>
        /\ trace[c] # <<>> =>
             IF Len(initial_guess[c]) # ModelArity(relaxation_function[c])
             THEN /\ pc[c] = "raised"
                  /\ raised[c] = "AssertionError"
                  /\ solver[c] = <<>>
                  /\ result[c] = <<>>
             ELSE /\ raised[c] # "AssertionError"
                  /\ pc[c] = "curve_fit" \/ Len(solver[c]) = 1

C1_Witness ==
    /\ relaxation_function[1] = "single_step_relaxation"
    /\ Len(initial_guess[1]) = 2
    /\ raised[1] = "AssertionError"

\* C2: once curve_fit has returned, the parameters warned about are exactly
\* those examined so far whose standard error has strictly greater magnitude
\* than the fitted value; at the end of the loop, exactly those of the fit.
C2_WarnedExactlyUnreliable ==
    \A c \in Calls :
        Solved(c) /\ raised[c] = "" =>
            {i \in 0..(Len(Fit(c).popt) - 1) :
                \E n \in 1..Len(WarningsOf(c)) :
                    WarningsOf(c)[n].letter = Alphabet[i + 1]}
            = {i \in 0..(index[c] - 1) : Flagged(Fit(c), i)}

C2_Witness ==
    /\ pc[1] = "returned"
    /\ Len(WarningsOf(1)) = 1
    /\ \E i \in 0..(Len(Fit(1).popt) - 1) :
         FEq(FAbs(Fit(1).popt[i + 1]), FAbs(FSqrt(Fit(1).pcov[i + 1][i + 1])))

\* C3: a call in which curve_fit has returned goes on to return its result
\* tuple, however many parameters are warned about and at whatever index.
C3_WarningsNeverAbort ==
    \A c \in Calls :
        Solved(c) ~> (pc[c] = "returned" /\ raised[c] = "" /\ Len(result[c]) = 3)

C3_Witness ==
    /\ relaxation_function[1] = "three_step_relaxation"
    /\ pc[1] = "returned"
    /\ Len(WarningsOf(1)) = 7

\* C4: curve_fit is invoked at most once per call, and when it fails the call
\* ends with that very error, with no result, no warning and no predicted
\* signal.
C4_SolverFailurePropagates ==
    \A c \in Calls :
        /\ Len(solver[c]) <= 1
        /\ Len(solver[c]) = 1 /\ solver[c][1].out.error # "" =>
             /\ pc[c] = "raised"
             /\ raised[c] = solver[c][1].out.error
             /\ result[c] = <<>>
             /\ WarningsOf(c) = <<>>
             /\ y_calc[c] = <<>>
             /\ trace[c] = <<Step("validate", 0), Step("solve", 0)>>

C4_Witness ==
    /\ raised[1] = "RuntimeError"
    /\ Len(x[1]) = 2

IsSquare(m, n) == Len(m) = n /\ \A i \in 1..n : Len(m[i]) = n

IsSymmetric(m) == \A i, j \in 1..Len(m) : m[i][j] = m[j][i]

\* C6: from the return of curve_fit on, the parameters and the covariance
\* matrix are those curve_fit returned, warnings or not, and so is the result:
\* the covariance returned is square of side the model's arity, and symmetric
\* when curve_fit's is.
C6_DiagnosticsKeepFit ==
    \A c \in Calls :
        /\ Solved(c) =>
             /\ parameters[c] = Fit(c).popt
             /\ covariance[c] = Fit(c).pcov
        /\ pc[c] = "returned" =>
             /\ result[c][1] = Fit(c).popt
             /\ result[c][2] = Fit(c).pcov
             /\ IsSquare(result[c][2], ModelArity(relaxation_function[c]))
             /\ IsSymmetric(Fit(c).pcov) => IsSymmetric(result[c][2])

C6_Witness ==
    /\ pc[1] = "returned"
    /\ Len(WarningsOf(1)) = 2
    /\ IsSymmetric(result[1][2])

RECURSIVE AloneWarnings(_, _, _)
\* The warnings of a call that runs alone, from index i on.
AloneWarnings(c, fit, i) ==
    IF i >= Len(fit.popt) THEN <<>>
    ELSE LET rest == AloneWarnings(c, fit, i + 1)
             sd == FSqrt(fit.pcov[i + 1][i + 1])
         IN  IF Flagged(fit, i)
             THEN <<[call |-> c, letter |-> Alphabet[i + 1],
                     standard_dev |-> sd, value |-> fit.popt[i + 1]]>> \o rest
             ELSE rest

\* What call c gives when it runs alone on its arguments args and curve_fit
\* answers its invocations as in invs.
Alone(c, args, invs) ==
    IF Len(args.initial_guess) # ModelArity(args.relaxation_function)
    THEN [raised |-> "AssertionError", result |-> <<>>, warnings |-> <<>>]
    ELSE IF invs[1].out.error # ""
    THEN [raised |-> invs[1].out.error, result |-> <<>>, warnings |-> <<>>]
    ELSE [raised |-> "",
          result |-> <<invs[1].out.popt, invs[1].out.pcov,
                       [n \in 1..Len(args.x) |->
                          Apply(args.relaxation_function, args.x[n], invs[1].out.popt)]>>,
          warnings |-> AloneWarnings(c, invs[1].out, 0)]

\* C7: whatever the interleaving of two calls, each call ends with the error
\* or the tuple, and with the warnings, it would have if run alone, and its
\* arguments are what they were when it was called.
C7_CallsIndependent ==
    \A c \in Calls :
        /\ Arguments(c) = given[c]
        /\ Done(c) =>
             [raised |-> raised[c], result |-> result[c], warnings |-> WarningsOf(c)]
                 = Alone(c, given[c], solver[c])

C7_Witness ==
    /\ pc[1] = "returned"
    /\ pc[2] = "returned"
    /\ Len(warnings) >= 3
    /\ warnings[1].call = 1
    /\ warnings[2].call = 2
    /\ warnings[3].call = 1
    /\ warnings[1].letter = warnings[2].letter

\* exp(-b*x) as single_step_relaxation computes it for the direct call.
EvalExp == FExp(FMul(FNeg(evalArgs[3]), evalArgs[1]))

\* C8 as stated: with a = 0 and c finite the value equals c for every x and b,
\* overflow of exp(-b*x) included.
C8_ZeroAmplitudeAlways ==
    evalValue # <<>> /\ evalArgs[2] = Fin(0) /\ IsFinite(evalArgs[4]) =>
        FEq(evalValue[1], evalArgs[4])

\* C8, amended: with a = 0 and c finite the value equals c whenever exp(-b*x)
\* is finite; when it has overflowed to infinity the value is NaN.
C8_ZeroAmplitudeFiniteExp ==
    evalValue # <<>> /\ evalArgs[2] = Fin(0) /\ IsFinite(evalArgs[4]) =>
        IF IsFinite(EvalExp) THEN FEq(evalValue[1], evalArgs[4])
        ELSE IsNaN(evalValue[1])

C8_Witness ==
    /\ evalValue # <<>>
    /\ evalArgs = <<Fin(1), Fin(0), Fin(-2), Fin(7)>>
    /\ evalValue[1] = Fin(7)

\* The place of a letter in the alphabet, from 0.
Place(letter) == CHOOSE i \in 0..(Len(Alphabet) - 1) : Alphabet[i + 1] = letter

\* The warnings of every call are at most one per parameter examined and
\* name letters in increasing order.
C9_Ordered ==
    \A c \in Calls :
        /\ Len(WarningsOf(c)) <= index[c]
        /\ index[c] <= ModelArity(relaxation_function[c])
        /\ \A m, n \in 1..Len(WarningsOf(c)) :
             m < n => Place(WarningsOf(c)[m].letter) < Place(WarningsOf(c)[n].letter)

\* A step that changes the warnings adds one warning, of a call that is in
\* its loop after curve_fit returned and has not returned, for the parameter
\* at the loop's index, named by the argument of the model function at that
\* place after x; the loop then moves on.
C9_Emission ==
    warnings' # warnings =>
        /\ Len(warnings') = Len(warnings) + 1
        /\ SubSeq(warnings', 1, Len(warnings)) = warnings
        /\ LET w == warnings'[Len(warnings')]
               c == w.call
           IN  /\ pc[c] = "for"
               /\ Solved(c)
               /\ result[c] = <<>>
               /\ result'[c] = <<>>
               /\ w.letter = Alphabet[index[c] + 1]
               /\ w.letter = Signature(relaxation_function[c])[index[c] + 2]
               /\ w.value = parameters[c][index[c] + 1]
               /\ index'[c] = index[c] + 1

\* C9: warnings come after curve_fit has returned and before the result is
\* returned, in increasing index order, at most one per parameter, and the
\* warning for index i names the i-th letter, which is the name of the model
\* function's argument at that place after x.
C9_WarningsInOrder == []C9_Ordered /\ [][C9_Emission]_vars

C9_Witness ==
    /\ relaxation_function[1] = "two_step_relaxation"
    /\ pc[1] = "for"
    /\ Len(WarningsOf(1)) = 2
    /\ WarningsOf(1)[1].letter = "b"
    /\ WarningsOf(1)[2].letter = "d"

\* The statements of a call that returns, for a model of n parameters.
FullTrace(n) ==
    <<Step("validate", 0), Step("solve", 0)>>
    \o [i \in 1..n |-> Step("diagnose", i - 1)]
    \o <<Step("predict", 0), Step("return", 0)>>

IsPrefix(s, t) == Len(s) <= Len(t) /\ s = SubSeq(t, 1, Len(s))

\* A call's statements so far follow the single pass, and a call that has
\* ended has ended in one of the three outcomes.
C10_Outcome ==
    \A c \in Calls :
        /\ IsPrefix(trace[c], FullTrace(ModelArity(relaxation_function[c])))
        /\ Done(c) =>
             \/ /\ raised[c] = "AssertionError"
                /\ Len(initial_guess[c]) # ModelArity(relaxation_function[c])
                /\ trace[c] = <<Step("validate", 0)>>
                /\ solver[c] = <<>>
                /\ result[c] = <<>>
             \/ /\ raised[c] \in SolverErrors
                /\ trace[c] = <<Step("validate", 0), Step("solve", 0)>>
                /\ result[c] = <<>>
             \/ /\ raised[c] = ""
                /\ pc[c] = "returned"
                /\ Len(result[c]) = 3
                /\ trace[c] = FullTrace(ModelArity(relaxation_function[c]))

====
